---- MODULE Spec2Model ----
(***************************************************************************)
(* Verification model of the thread-bet (Whispers) trading pipeline:       *)
(*   - the precheck engine (server/src/abilities/polymarket-trade.ts and   *)
(*     the packaged Vincent ability),                                      *)
(*   - the order builder,                                                  *)
(*   - the trade session: POST /api/trade/precheck, POST                   *)
(*     /api/trade/execute, polymarketTradeExecute and the extension's      *)
(*     direct submitOrder flow,                                            *)
(*   - concurrent execute requests, the trades, wallet_balances and users  *)
(*     tables (server/src/database.ts), GET /api/wallet/balance, and the   *)
(*     signature exchange of the link cards of one page.                   *)
(*                                                                         *)
(* Units.  Prices are in thousandths (0.65 is 650), so the range check     *)
(* 0.01 <= price <= 0.99 reads 10 <= price <= 990.  Amounts, balances and  *)
(* allowances are whole USDC (or whole shares) in precheck and in the      *)
(* session; the order builder takes decimals with six fraction digits and  *)
(* turns them into 6-decimal fixed point.  The JavaScript numbers of the source  *)
(* are doubles; the model computes with exact rationals, which agrees      *)
(* with toFixed(6) on every input of the model because no quotient or      *)
(* product of the model lies on a rounding tie.                            *)
(***************************************************************************)
EXTENDS Integers, Sequences, FiniteSets, TLC

VARIABLES
    \* ---- one run of precheck (SpecPrecheck) ----
    ppc,        \* position: "idle", "awaitBalance", "awaitAllowance", "done"
    pin,        \* the call's input and the chain's true values
    pbalance,   \* local `balance` / `usdcBalance` once read
    pqueries,   \* the oracle queries issued so far, in order
    pfailed,    \* an oracle read of this run failed
    pres,       \* the value precheck returned
    \* ---- one call of the order builder (SpecBuilder) ----
    bin,        \* the builder's parameters and the clock / random draws
    bout,       \* what buildPolymarketOrder returned
    \* ---- the trade session (Spec) ----
    env,            \* process.env: which secrets are configured
    litInitialized, \* the server's module flag
    okPrechecks,    \* intents for which /api/trade/precheck answered allowed
    fpc,            \* position of the trade attempt in progress
    fcall,          \* the attempt's entry point and parameters
    fsent,          \* the order handed to the exchange by this attempt
    ffault,         \* the stage of polymarketTradeExecute that failed
    fres,           \* what polymarketTradeExecute / submitOrder returned
    fresp,          \* what the caller saw: HTTP response or alert
    keyCalls,       \* createApiKey calls made so far with the server's signer
    keyFailed,      \* one of those calls failed
    \* ---- concurrent execute requests (SpecConcurrent) ----
    cpc,            \* position of each request
    cres,           \* the response each request got
    ccalls,         \* createApiKey calls issued with the server's signer
    \* ---- the trades table (SpecTradeDB) ----
    trades,         \* the rows, by id
    \* ---- the clock and GET /api/wallet/balance (SpecBalance) ----
    clock,          \* Math.floor(Date.now() / 1000), strftime('%s', 'now')
    balances,       \* the user's wallet_balances row, if any
    wres,           \* the last answer of the endpoint, and how it was made
    \* ---- the users table (SpecUserDB) ----
    users,          \* the rows, by id
    \* ---- link cards of one page (SpecCards) ----
    xpc,            \* position of each card's trade attempt
    xwallet,        \* the orders the wallet has been asked to sign
    xsig,           \* the signature each card's promise resolved to
    xsent           \* what each card handed to submitOrder

pvars == <<ppc, pin, pbalance, pqueries, pfailed, pres>>
bvars == <<bin, bout>>

fvars == <<env, litInitialized, okPrechecks, fpc, fcall, fsent, ffault,
           fres, fresp, keyCalls, keyFailed>>

cvars == <<cpc, cres, ccalls>>
tvars == <<trades>>
wvars == <<clock, balances, wres>>
uvars == <<users>>
xvars == <<xpc, xwallet, xsig, xsent>>

vars == <<ppc, pin, pbalance, pqueries, pfailed, pres, bin, bout,
          env, litInitialized, okPrechecks, fpc, fcall, fsent, ffault,
          fres, fresp, keyCalls, keyFailed, cpc, cres, ccalls, trades,
          clock, balances, wres, users, xpc, xwallet, xsig, xsent>>

-----------------------------------------------------------------------------
(* Bounds and domains *)

MaxAmount == 3
MaxBalance == 3
MaxBuildAmount == 20
MaxNonce == 2

Sides == {"BUY", "SELL"}

\* Representative prices in thousandths: 0, below range, both boundaries,
\* inside, above range, 1.0.
PricePoints == {0, 5, 10, 500, 990, 995, 1000}

Amounts == 1..MaxAmount
ChainValues == 0..MaxBalance

\* What a rejected promise carries: an Error with a message, or a value
\* that is not an Error.
ThrownValues ==
    { [isError |-> TRUE, message |-> "could not detect network"],
      [isError |-> FALSE, message |-> ""] }

NoDetails == << >>
NoValue == "undefined"

-----------------------------------------------------------------------------
(* Precheck engine *)

MinPrice == 10
MaxPrice == 990

\* price < 0.01 || price > 0.99
PriceOutOfRange(price) == price < MinPrice \/ price > MaxPrice

\* Server variant: balance and allowance are compared against
\* abilityParams.amount whatever the side.
ServerRequired(side, amount) == amount

\* Packaged ability: requiredAmount = side === "BUY" ? amount : 0.
AbilityRequired(side, amount) == IF side = "BUY" THEN amount ELSE 0

PrecheckCatch_rethrow(error) ==
    [outcome |-> "thrown", allowed |-> FALSE, reason |-> NoValue,
     details |-> NoDetails]

\* catch (error) { return { allowed: false, reason: `Precheck failed: ...` } }
PrecheckCatch(error) ==
    [outcome |-> "returned", allowed |-> FALSE,
     reason |-> "Precheck failed: " \o
                (IF error.isError THEN error.message ELSE "Unknown error"),
     details |-> NoDetails]

PrecheckMissingPkp ==
    [outcome |-> "returned", allowed |-> FALSE,
     reason |-> "Missing delegator PKP address", details |-> NoDetails]

ServerBalanceCheck_skipped(p, balance) == [done |-> FALSE]

\* Server variant, after the balance read: if (balance < amount) return ...
ServerBalanceCheck(p, balance) ==
    IF balance < ServerRequired(p.side, p.amount)
    THEN [done |-> TRUE,
          result |-> [outcome |-> "returned", allowed |-> FALSE,
                      reason |-> "Insufficient USDC balance",
                      details |-> [balance |-> balance,
                                   required |-> ServerRequired(p.side, p.amount)]]]
    ELSE [done |-> FALSE]

ServerAllowanceCheck_noPriceCheck(p, balance, allowance) ==
    IF allowance < ServerRequired(p.side, p.amount)
    THEN [outcome |-> "returned", allowed |-> FALSE,
          reason |-> "Insufficient USDC allowance. Please approve USDC first.",
          details |-> [allowance |-> allowance,
                       required |-> ServerRequired(p.side, p.amount)]]
    ELSE [outcome |-> "returned", allowed |-> TRUE, reason |-> NoValue,
          details |-> [balance |-> balance, allowance |-> allowance,
                       required |-> ServerRequired(p.side, p.amount)]]

\* Server variant, after the allowance read: allowance check, then the
\* price range check, then success.
ServerAllowanceCheck(p, balance, allowance) ==
    IF allowance < ServerRequired(p.side, p.amount)
    THEN [outcome |-> "returned", allowed |-> FALSE,
          reason |-> "Insufficient USDC allowance. Please approve USDC first.",
          details |-> [allowance |-> allowance,
                       required |-> ServerRequired(p.side, p.amount)]]
    ELSE IF PriceOutOfRange(p.price)
    THEN [outcome |-> "returned", allowed |-> FALSE,
          reason |-> "Price must be between 0.01 (1%) and 0.99 (99%)",
          details |-> NoDetails]
    ELSE [outcome |-> "returned", allowed |-> TRUE, reason |-> NoValue,
          details |-> [balance |-> balance, allowance |-> allowance,
                       required |-> ServerRequired(p.side, p.amount)]]

\* Packaged ability, after both reads: hasBalance / hasAllowance.
AbilityChecks(p, usdcBalance, usdcAllowance) ==
    LET requiredAmount == AbilityRequired(p.side, p.amount)
        hasBalance == usdcBalance >= requiredAmount
        hasAllowance == usdcAllowance >= requiredAmount
        all == [usdcBalance |-> usdcBalance, usdcAllowance |-> usdcAllowance,
                requiredAmount |-> requiredAmount]
    IN  IF ~hasBalance
        THEN [outcome |-> "returned", allowed |-> FALSE,
              reason |-> "Insufficient USDC balance", details |-> all]
        ELSE IF ~hasAllowance
        THEN [outcome |-> "returned", allowed |-> FALSE,
              reason |-> "Insufficient USDC allowance. Please approve USDC first.",
              details |-> all]
        ELSE [outcome |-> "returned", allowed |-> TRUE, reason |-> NoValue,
              details |-> [usdcBalance |-> usdcBalance,
                           usdcAllowance |-> usdcAllowance,
                           requiredAmount |-> requiredAmount,
                           hasBalance |-> hasBalance,
                           hasAllowance |-> hasAllowance]]

\* abilityParamsSchema of the packaged ability: price in [0.01, 0.99],
\* amount positive.
AbilityParamsSchema(price, amount) ==
    price >= MinPrice /\ price <= MaxPrice /\ amount > 0

PrecheckInputs ==
    [variant : {"server", "ability"}, side : Sides, price : PricePoints,
     amount : Amounts, hasPkpAddress : BOOLEAN,
     chainBalance : ChainValues, chainAllowance : ChainValues]

PrecheckIdle ==
    /\ ppc = "idle"
    /\ pin = NoValue
    /\ pbalance = NoValue
    /\ pqueries = << >>
    /\ pfailed = FALSE
    /\ pres = NoValue

NotBuilt == [builder |-> "none"]

BuilderIdle ==
    /\ bin = NoValue
    /\ bout = NotBuilt

NoCall == [flow |-> "none"]
NotSent == [sent |-> FALSE]
NoResult == [kind |-> "none"]
NoResponse == [status |-> 0, kind |-> "none"]

\* No trade attempt is in progress.
AttemptIdle ==
    /\ fpc = "idle"
    /\ fcall = NoCall
    /\ fsent = NotSent
    /\ ffault = "none"
    /\ fres = NoResult
    /\ fresp = NoResponse

NumRequests == 2
Requests == 1..NumRequests

\* No concurrent request has arrived.
ConcurrentIdle ==
    /\ cpc = [r \in Requests |-> "idle"]
    /\ cres = [r \in Requests |-> NoResponse]
    /\ ccalls = 0

\* The trades table is empty.
LedgerEmpty == trades = << >>

\* Link cards of one page.
NumCards == 2
Cards == 1..NumCards

\* No row / no value of a record-valued variable.
NoRow == [present |-> FALSE]
NoAnswer == [kind |-> "none"]
NoSignature == [kind |-> "none"]

\* The clock starts, no balance is cached, nobody has logged in, and no
\* card has a trade under way.
WalletIdle ==
    /\ clock = 0
    /\ balances = NoRow
    /\ wres = NoAnswer
UsersEmpty == users = << >>
CardsIdle ==
    /\ xpc = [k \in Cards |-> "idle"]
    /\ xwallet = {}
    /\ xsig = [k \in Cards |-> NoSignature]
    /\ xsent = [k \in Cards |-> NotSent]
StoresIdle ==
    /\ LedgerEmpty
    /\ WalletIdle
    /\ UsersEmpty
    /\ CardsIdle

\* A server process that has just started, with no secret configured.
SessionIdle ==
    /\ env = [clobCreds |-> FALSE, delegateeKey |-> FALSE]
    /\ litInitialized = FALSE
    /\ okPrechecks = {}
    /\ keyCalls = 0
    /\ keyFailed = FALSE
    /\ AttemptIdle
    /\ ConcurrentIdle
    /\ StoresIdle

PInit ==
    /\ PrecheckIdle
    /\ BuilderIdle
    /\ SessionIdle

\* polymarketTradePrecheck is called: it runs to its first await, the
\* balance read.  The server routes always pass a userAddress.
ServerPrecheckCall ==
    /\ ppc = "idle"
    /\ \E p \in PrecheckInputs :
          /\ p.variant = "server"
          /\ p.hasPkpAddress
          /\ pin' = p
    /\ ppc' = "awaitBalance"
    /\ pqueries' = <<"balance">>
    /\ pbalance' = NoValue
    /\ pfailed' = FALSE
    /\ pres' = NoValue
    /\ UNCHANGED <<bvars, fvars, cvars, tvars, wvars, uvars, xvars>>

\* The packaged ability's precheck is called with parameters that passed
\* abilityParamsSchema; without a delegator address it fails at once.
AbilityPrecheckCall ==
    /\ ppc = "idle"
    /\ \E p \in PrecheckInputs :
          /\ p.variant = "ability"
          /\ AbilityParamsSchema(p.price, p.amount)
          /\ pin' = p
          /\ IF p.hasPkpAddress
             THEN /\ ppc' = "awaitBalance"
                  /\ pqueries' = <<"balance">>
                  /\ pres' = NoValue
             ELSE /\ ppc' = "done"
                  /\ pqueries' = << >>
                  /\ pres' = PrecheckMissingPkp
    /\ pbalance' = NoValue
    /\ pfailed' = FALSE
    /\ UNCHANGED <<bvars, fvars, cvars, tvars, wvars, uvars, xvars>>

\* checkUSDCBalance resolves with the chain's balance.
BalanceReadReturns ==
    /\ ppc = "awaitBalance"
    /\ pbalance' = pin.chainBalance
    /\ pfailed' = pfailed
    /\ IF pin.variant = "server" /\ ServerBalanceCheck(pin, pin.chainBalance).done
       THEN /\ ppc' = "done"
            /\ pres' = ServerBalanceCheck(pin, pin.chainBalance).result
            /\ pqueries' = pqueries
       ELSE /\ ppc' = "awaitAllowance"
            /\ pres' = pres
            /\ pqueries' = Append(pqueries, "allowance")
    /\ UNCHANGED pin
    /\ UNCHANGED <<bvars, fvars, cvars, tvars, wvars, uvars, xvars>>

\* checkUSDCBalance rejects (RPC or network failure): the catch block.
BalanceReadFails ==
    /\ ppc = "awaitBalance"
    /\ \E e \in ThrownValues : pres' = PrecheckCatch(e)
    /\ ppc' = "done"
    /\ pfailed' = TRUE
    /\ UNCHANGED <<pin, pbalance, pqueries>>
    /\ UNCHANGED <<bvars, fvars, cvars, tvars, wvars, uvars, xvars>>

\* checkUSDCAllowance resolves with the chain's allowance.
AllowanceReadReturns ==
    /\ ppc = "awaitAllowance"
    /\ pres' = IF pin.variant = "server"
               THEN ServerAllowanceCheck(pin, pbalance, pin.chainAllowance)
               ELSE AbilityChecks(pin, pbalance, pin.chainAllowance)
    /\ ppc' = "done"
    /\ UNCHANGED <<pin, pbalance, pqueries, pfailed>>
    /\ UNCHANGED <<bvars, fvars, cvars, tvars, wvars, uvars, xvars>>

\* checkUSDCAllowance rejects: the catch block.
AllowanceReadFails ==
    /\ ppc = "awaitAllowance"
    /\ \E e \in ThrownValues : pres' = PrecheckCatch(e)
    /\ ppc' = "done"
    /\ pfailed' = TRUE
    /\ UNCHANGED <<pin, pbalance, pqueries>>
    /\ UNCHANGED <<bvars, fvars, cvars, tvars, wvars, uvars, xvars>>

\* The caller has the result; the next call may start.
PrecheckDone ==
    /\ ppc = "done"
    /\ ppc' = "idle"
    /\ pin' = NoValue
    /\ pbalance' = NoValue
    /\ pqueries' = << >>
    /\ pfailed' = FALSE
    /\ pres' = NoValue
    /\ UNCHANGED <<bvars, fvars, cvars, tvars, wvars, uvars, xvars>>

PNext ==
    \/ ServerPrecheckCall
    \/ AbilityPrecheckCall
    \/ BalanceReadReturns
    \/ BalanceReadFails
    \/ AllowanceReadReturns
    \/ AllowanceReadFails
    \/ PrecheckDone

SpecPrecheck == PInit /\ [][PNext]_vars

-----------------------------------------------------------------------------
(* Properties of the precheck engine (checked under SpecPrecheck) *)

BalanceReason == "Insufficient USDC balance"
AllowanceReason == "Insufficient USDC allowance. Please approve USDC first."
PriceReason == "Price must be between 0.01 (1%) and 0.99 (99%)"
ReadFailureReasons ==
    { "Precheck failed: could not detect network",
      "Precheck failed: Unknown error" }

\* C2: for a BUY intent whose oracle reads did not fail,
\* polymarketTradePrecheck returns allowed=true exactly when
\* balance >= amount, allowance >= amount and 0.01 <= price <= 0.99, and
\* then its details are the queried balance, the queried allowance and
\* required = amount.
C2_BuyAllowedIff ==
    (ppc = "done" /\ pin.variant = "server" /\ pin.side = "BUY" /\ ~pfailed) =>
        /\ pres.outcome = "returned"
        /\ pres.allowed <=>
              /\ pin.chainBalance >= pin.amount
              /\ pin.chainAllowance >= pin.amount
              /\ 10 <= pin.price /\ pin.price <= 990
        /\ pres.allowed =>
              pres.details = [balance |-> pin.chainBalance,
                              allowance |-> pin.chainAllowance,
                              required |-> pin.amount]

C2_Witness ==
    /\ ppc = "done" /\ pin.variant = "server" /\ pin.side = "BUY"
    /\ ~pfailed /\ pres.allowed
    /\ pin.price = 990

\* C3: for a SELL intent precheck never returns the insufficient-balance
\* or the insufficient-allowance failure.
C3_SellNeverFundsFailure ==
    (ppc = "done" /\ pin.side = "SELL") =>
        pres.reason \notin {BalanceReason, AllowanceReason}

\* C4: balance is checked before allowance.  With required the amount the
\* variant compares against (and equally with the amount-if-BUY-else-0 of
\* the design): an allowance failure is never reported while the balance
\* is below required; balance >= required and allowance < required gives
\* the allowance failure; both below required gives the balance failure.
C4_BalanceBeforeAllowance ==
    (ppc = "done" /\ pin.hasPkpAddress) =>
        \A req \in { IF pin.variant = "server"
                        THEN ServerRequired(pin.side, pin.amount)
                        ELSE AbilityRequired(pin.side, pin.amount),
                     IF pin.side = "BUY" THEN pin.amount ELSE 0 } :
            /\ pres.reason = AllowanceReason => pin.chainBalance >= req
            /\ (~pfailed /\ pin.chainBalance >= req /\ pin.chainAllowance < req)
                  => pres.reason = AllowanceReason
            /\ (~pfailed /\ pin.chainBalance < req /\ pin.chainAllowance < req)
                  => pres.reason = BalanceReason

C4_Witness ==
    /\ ppc = "done" /\ pin.side = "BUY" /\ ~pfailed
    /\ pin.chainBalance >= pin.amount /\ pin.chainAllowance < pin.amount
    /\ pres.reason = AllowanceReason

\* C6: an intent whose price is outside [0.01, 0.99] is rejected by
\* polymarketTradePrecheck with the price-range failure and without any
\* balance or allowance query having been issued.
C6_OutOfRangeBeforeQueries ==
    (ppc # "idle" /\ pin.variant = "server"
        /\ (pin.price < 10 \/ pin.price > 990)) =>
        /\ pqueries = << >>
        /\ ppc = "done" => pres.reason = PriceReason

\* C7: precheck never propagates a fault: every run ends by returning a
\* result, and a run in which an oracle read failed returns allowed=false
\* with a reason describing the failure.
C7_ReadFailureIsResult ==
    /\ ppc = "done" => pres.outcome = "returned"
    /\ (ppc = "done" /\ pfailed) =>
          /\ pres.allowed = FALSE
          /\ pres.reason \in ReadFailureReasons

C7_Witness ==
    /\ ppc = "done" /\ pfailed /\ pqueries = <<"balance", "allowance">>
    /\ pres.reason = "Precheck failed: Unknown error"

\* C24: precheck short-circuits on the first failure: when the balance is
\* below the required amount, the allowance query is never issued.
C24_ShortCircuitOnBalance ==
    (ppc # "idle" /\ pin.hasPkpAddress
        /\ pin.chainBalance < (IF pin.variant = "server"
                                THEN ServerRequired(pin.side, pin.amount)
                                ELSE AbilityRequired(pin.side, pin.amount))) =>
        pqueries = <<"balance">>

-----------------------------------------------------------------------------
(* Order builder *)

\* parseUnits(x, 6): one unit is 10^6 of the fixed-point integers.
Micro == 1000000
\* expiration: now + 86400 seconds.
DaySeconds == 86400

NullAddress == "0x0000000000000000000000000000000000000000"
Addresses == {"0xUserA", "0xUserB"}
TokenIds == {"T1"}
BuilderPrices == {10, 300, 500, 600, 650, 700, 990}
NowPoints == {1500, 2000}
SaltPoints == {0, 7}

\* An amount is a decimal with at most six fraction digits:
\* whole + frac / 10^6.
Whole(n) == [whole |-> n, frac |-> 0]
SubUnitFracs == {40}
BuildAmounts ==
    { Whole(n) : n \in 1..MaxBuildAmount }
        \cup { [whole |-> 0, frac |-> f] : f \in SubUnitFracs }

\* ethers.utils.parseUnits(d.toString(), 6): the integer part times 10^6
\* plus the fraction digits.
ParseUnits6(d) == d.whole * Micro + d.frac

ToFixed6_truncating(m, a, b) ==
    (m \div b) * a + ((m % b) * a) \div b

\* parseUnits((x * a / b).toFixed(6), 6) for x = m / 10^6: the value in
\* 6-decimal fixed point, rounded to the nearest unit, a tie going up.
ToFixed6(m, a, b) ==
    (m \div b) * a + (2 * (m % b) * a + b) \div (2 * b)

\* nonce || Date.now()
NonceOrNow(nonce, now) ==
    IF nonce.given /\ nonce.value # 0 THEN nonce.value ELSE now

BuilderInputs ==
    [tokenId : TokenIds, side : Sides, price : BuilderPrices,
     amount : BuildAmounts, userAddress : Addresses,
     nonce : {[given |-> FALSE, value |-> 0]}
                \cup [given : {TRUE}, value : 0..MaxNonce],
     now : NowPoints, salt : SaltPoints]

\* makerAmount: BUY gives the USDC amount, SELL gives the shares; the
\* server builder parses amount.toString(), the extension's parses
\* size.toFixed(6).  On six fraction digits both are amount * 10^6.
MakerAmount(side, price, amount) == ParseUnits6(amount)

TakerAmount_truncating(side, price, amount) ==
    IF side = "BUY"
    THEN ToFixed6_truncating(ParseUnits6(amount), 1000, price)
    ELSE ToFixed6_truncating(ParseUnits6(amount), price, 1000)

TakerAmount_sellAsBuy(side, price, amount) ==
    ToFixed6(ParseUnits6(amount), 1000, price)

\* takerAmount: BUY receives shares = amount / price, SELL receives
\* USDC = amount * price, each through toFixed(6).
TakerAmount(side, price, amount) ==
    IF side = "BUY"
    THEN ToFixed6(ParseUnits6(amount), 1000, price)
    ELSE ToFixed6(ParseUnits6(amount), price, 1000)

BuildPolymarketOrder_sideAsGiven(params) ==
    [salt |-> params.salt,
     maker |-> params.userAddress,
     signer |-> params.userAddress,
     taker |-> NullAddress,
     tokenId |-> params.tokenId,
     makerAmount |-> MakerAmount(params.side, params.price, params.amount),
     takerAmount |-> TakerAmount(params.side, params.price, params.amount),
     expiration |-> (params.now \div 1000) + DaySeconds,
     nonce |-> NonceOrNow(params.nonce, params.now),
     feeRateBps |-> 0,
     side |-> 0,
     signatureType |-> 0]

\* buildPolymarketOrder: the order of the returned { order, domain, types }.
BuildPolymarketOrder(params) ==
    [salt |-> params.salt,
     maker |-> params.userAddress,
     signer |-> params.userAddress,
     taker |-> NullAddress,
     tokenId |-> params.tokenId,
     makerAmount |-> MakerAmount(params.side, params.price, params.amount),
     takerAmount |-> TakerAmount(params.side, params.price, params.amount),
     expiration |-> (params.now \div 1000) + DaySeconds,
     nonce |-> NonceOrNow(params.nonce, params.now),
     feeRateBps |-> 0,
     side |-> IF params.side = "BUY" THEN 0 ELSE 1,
     signatureType |-> 0]

BInit ==
    /\ PrecheckIdle
    /\ SessionIdle
    /\ bin \in BuilderInputs
    /\ bout = NotBuilt

\* The server's buildPolymarketOrder is applied to the parameters.
ServerBuildOrder ==
    /\ bout = NotBuilt
    /\ bout' = [builder |-> "server", order |-> BuildPolymarketOrder(bin)]
    /\ UNCHANGED <<bin, pvars, fvars, cvars, tvars, wvars, uvars, xvars>>

\* The extension's buildPolymarketOrder is applied to the parameters.
ExtensionBuildOrder ==
    /\ bout = NotBuilt
    /\ bout' = [builder |-> "extension", order |-> BuildPolymarketOrder(bin)]
    /\ UNCHANGED <<bin, pvars, fvars, cvars, tvars, wvars, uvars, xvars>>

BNext ==
    \/ ServerBuildOrder
    \/ ExtensionBuildOrder

SpecBuilder == BInit /\ [][BNext]_vars

-----------------------------------------------------------------------------
(* Properties of the order builder (checked under SpecBuilder) *)

\* C10: for a BUY intent makerAmount is amount * 10^6 and takerAmount is
\* amount / price rounded to 6 decimals in fixed point (at most half a
\* unit from the exact quotient); amount=10, price=0.65 gives 10000000 and
\* 15384615, amount=10, price=0.5 gives 10000000 and 20000000.
C10_BuyAmounts ==
    (bout.builder # "none" /\ bin.side = "BUY") =>
        LET o == bout.order
            \* the amount in millionths; price is in thousandths, so
            \* amount / price = (whole + rest / price) * 1000 millionths
            amount == bin.amount.whole * 1000000 + bin.amount.frac
            whole == amount \div bin.price
            rest == amount % bin.price
            frac == o.takerAmount - whole * 1000
        IN  /\ o.makerAmount = amount
            /\ 2 * frac * bin.price <= 2 * rest * 1000 + bin.price
            /\ 2 * frac * bin.price > 2 * rest * 1000 - bin.price
            /\ (bin.amount = Whole(10) /\ bin.price = 650) =>
                  (o.makerAmount = 10000000 /\ o.takerAmount = 15384615)
            /\ (bin.amount = Whole(10) /\ bin.price = 500) =>
                  (o.makerAmount = 10000000 /\ o.takerAmount = 20000000)

C10_Witness ==
    /\ bout.builder # "none" /\ bin.side = "BUY"
    /\ bin.amount = Whole(10) /\ bin.price = 650
    /\ bout.order.takerAmount = 15384615

\* C11: for a SELL intent makerAmount is the share count in 6-decimal
\* fixed point (amount * 10^6) and takerAmount is amount * price rounded to
\* 6 decimals in fixed point (at most half a unit from the exact product);
\* amount=20, price=0.70 gives 20000000 and 14000000.
C11_SellAmounts ==
    (bout.builder # "none" /\ bin.side = "SELL") =>
        LET o == bout.order
            \* the amount in millionths; amount * price =
            \* whole * price + rest * price / 1000 millionths
            amount == bin.amount.whole * 1000000 + bin.amount.frac
            whole == amount \div 1000
            rest == amount % 1000
            frac == o.takerAmount - whole * bin.price
        IN  /\ o.makerAmount = amount
            /\ 2 * frac * 1000 <= 2 * rest * bin.price + 1000
            /\ 2 * frac * 1000 > 2 * rest * bin.price - 1000
            /\ (bin.amount = Whole(20) /\ bin.price = 700) =>
                  (o.makerAmount = 20000000 /\ o.takerAmount = 14000000)

C11_Witness ==
    /\ bout.builder # "none" /\ bin.side = "SELL"
    /\ bin.amount = Whole(20) /\ bin.price = 700
    /\ bout.order.makerAmount = 20000000
    /\ bout.order.takerAmount = 14000000

\* C12: for every intent with 0.01 <= price <= 0.99 and amount > 0, on
\* either side, the built order has makerAmount > 0 and takerAmount > 0.
C12_AmountsPositive ==
    (/\ bout.builder # "none"
     /\ ~PriceOutOfRange(bin.price)
     /\ (bin.amount.whole > 0 \/ bin.amount.frac > 0))
        => (bout.order.makerAmount > 0 /\ bout.order.takerAmount > 0)

\* C13 as stated: for every valid BUY intent takerAmount / price equals
\* makerAmount within the 6-decimal rounding tolerance (one fixed-point
\* unit).  The first conjunct bounds the quotient before it is scaled.
C13_TakerOverPriceIsMaker ==
    (bout.builder # "none" /\ bin.side = "BUY"
        /\ ~PriceOutOfRange(bin.price)) =>
        LET o == bout.order
            quot == o.takerAmount \div bin.price
            rem == o.takerAmount % bin.price
            back == quot * 1000 + (rem * 1000) \div bin.price
        IN  /\ quot <= o.makerAmount \div 1000 + 1
            /\ back - o.makerAmount <= 1
            /\ o.makerAmount - back <= 1

\* C13 amended: for every valid BUY intent takerAmount * price equals
\* makerAmount within the rounding of takerAmount, that is
\* |takerAmount * price - makerAmount| <= price / 2 fixed-point units.
C13_TakerTimesPriceIsMaker ==
    (bout.builder # "none" /\ bin.side = "BUY"
        /\ ~PriceOutOfRange(bin.price)) =>
        LET o == bout.order
            \* makerAmount = whole * price + rest (price in thousandths)
            whole == o.makerAmount \div bin.price
            rest == o.makerAmount % bin.price
            \* takerAmount * price / 1000 - makerAmount, times 1000
            diff == (o.takerAmount - whole * 1000) * bin.price - rest * 1000
        IN  /\ 2 * diff <= bin.price
            /\ 2 * diff >= -bin.price

C13_Witness ==
    /\ bout.builder # "none" /\ bin.side = "BUY"
    /\ bin.amount = Whole(10) /\ bin.price = 700
    /\ bout.order.makerAmount = 10000000
    /\ bout.order.takerAmount = 14285714

\* C14: every built order has side 0 for BUY and 1 for SELL,
\* signatureType 0, feeRateBps 0, the null address as taker, the supplied
\* account as maker and signer, and the intent's tokenId.
C14_OrderFields ==
    bout.builder # "none" =>
        LET o == bout.order
        IN  /\ (bin.side = "BUY" => o.side = 0)
            /\ (bin.side = "SELL" => o.side = 1)
            /\ o.signatureType = 0
            /\ o.feeRateBps = 0
            /\ o.taker = NullAddress
            /\ o.maker = bin.userAddress
            /\ o.signer = bin.userAddress
            /\ o.tokenId = bin.tokenId

C14_Witness ==
    /\ bout.builder = "extension" /\ bin.side = "SELL"
    /\ bout.order.side = 1
    /\ bout.order.maker = "0xUserB"
    /\ bout.order.signer = "0xUserB"

\* C25: whenever the caller passes a nonce (any non-negative integer,
\* including 0) the built order carries exactly that nonce; the current
\* timestamp is used only when no nonce was passed.
C25_NonceAsPassed ==
    bout.builder # "none" =>
        bout.order.nonce = IF bin.nonce.given THEN bin.nonce.value
                           ELSE bin.now

-----------------------------------------------------------------------------
(* The trade session: the server's two trading routes,                     *)
(* polymarketTradeExecute, and the extension's direct submission.          *)

MaxFlowAmount == 1
MaxPrechecks == 1
MaxKeyCalls == 2

FlowPrices == {0, 5, 500, 1000}
FlowAmounts == 0..MaxFlowAmount
BodySides == {"BUY", "SELL", "buy"}
BodyTokenIds == {"", "T1"}
Envs == [clobCreds : BOOLEAN, delegateeKey : BOOLEAN]

DelegateeAddress == "0xDelegatee"

\* userParams of polymarketTradeExecute: which fields are set.
NoUserParams == [key |-> FALSE, secret |-> FALSE, passphrase |-> FALSE]
UserParamsSet ==
    { NoUserParams,
      [key |-> TRUE, secret |-> TRUE, passphrase |-> TRUE],
      [key |-> TRUE, secret |-> TRUE, passphrase |-> FALSE] }

\* What clob-client's createApiKey resolves to: a credentials object, or
\* the error object of a refused request (no key, secret or passphrase).
ApiKeyResponses ==
    { [key |-> TRUE, secret |-> TRUE, passphrase |-> TRUE],
      [key |-> TRUE, secret |-> TRUE, passphrase |-> FALSE],
      NoUserParams }

\* What createAndPostOrder resolves to: the exchange's answer with or
\* without an orderID, or nothing at all.
OrderIds == {"0xorder1"}
PostResponses ==
    [defined : {TRUE}, orderID : OrderIds \cup {NoValue}]
        \cup {[defined |-> FALSE, orderID |-> NoValue]}

\* side.toUpperCase()
ToUpperCase(side) == IF side = "buy" THEN "BUY" ELSE side

\* The request bodies of the two trading routes.  A field that is absent,
\* empty or 0 is falsy.
TradeBodies ==
    [tokenId : BodyTokenIds, side : BodySides, price : FlowPrices,
     amount : FlowAmounts, userAddress : Addresses, authToken : BOOLEAN]

\* The order types of the exchange; a request may name none.
OrderTypes == {"GTC", "FOK", "GTD"}
BodyOrderTypes == OrderTypes \cup {NoValue}

\* The request bodies of POST /api/trade/execute.
ExecuteBodies ==
    [tokenId : BodyTokenIds, side : BodySides, price : FlowPrices,
     amount : FlowAmounts, userAddress : Addresses, authToken : BOOLEAN,
     orderType : BodyOrderTypes]

MissingFields(body) ==
    \/ body.tokenId = ""
    \/ body.price = 0
    \/ body.amount = 0

MissingFieldsResponse ==
    [status |-> 400, kind |-> "json", success |-> FALSE,
     error |-> "Missing required fields: tokenId, side, price, amount, userAddress"]

VerifyVincentJWT(token) == [valid |-> token]

\* The intent and account a precheck or an execution is about.
Intent(c) ==
    [tokenId |-> c.tokenId, side |-> c.side, price |-> c.price,
     amount |-> c.amount, userAddress |-> c.userAddress]

\* An oracle read: the value read, or the value thrown.
OracleReads ==
    [ok : {TRUE}, value : FlowAmounts]
        \cup [ok : {FALSE}, value : ThrownValues]

\* polymarketTradePrecheck from entry to return, given what the two chain
\* reads produce.
PolymarketTradePrecheck(p, balanceRead, allowanceRead) ==
    IF ~balanceRead.ok THEN PrecheckCatch(balanceRead.value)
    ELSE IF ServerBalanceCheck(p, balanceRead.value).done
         THEN ServerBalanceCheck(p, balanceRead.value).result
    ELSE IF ~allowanceRead.ok THEN PrecheckCatch(allowanceRead.value)
    ELSE ServerAllowanceCheck(p, balanceRead.value, allowanceRead.value)

\* POST /api/trade/precheck, request to response.  A response with
\* success = true is remembered in okPrechecks.  The session serves one
\* request at a time.
PrecheckEndpoint ==
    /\ fpc = "idle"
    /\ Cardinality(okPrechecks) < MaxPrechecks
    /\ \E body \in TradeBodies, balanceRead \in OracleReads,
          allowanceRead \in OracleReads :
          LET p == [body EXCEPT !.side = ToUpperCase(body.side)]
              result == PolymarketTradePrecheck(p, balanceRead, allowanceRead)
          IN  okPrechecks' =
                  IF /\ ~MissingFields(body)
                     /\ result.outcome = "returned"
                     /\ result.allowed
                  THEN okPrechecks \cup {Intent(p)}
                  ELSE okPrechecks
    /\ UNCHANGED <<env, litInitialized, fpc, fcall, fsent, ffault, fres, fresp>>
    /\ UNCHANGED <<keyCalls, keyFailed>>
    /\ UNCHANGED <<pvars, bvars, cvars, tvars, wvars, uvars, xvars>>

\* ---- polymarketTradeExecute ----

\* catch (error) { return { success: false, error: ... } }
ExecuteCatch_rethrow(error) == [kind |-> "thrown", error |-> error]

ExecuteCatch(error) ==
    [kind |-> "returned", success |-> FALSE, orderId |-> NoValue,
     error |-> IF error.isError THEN error.message ELSE "Execution failed"]

ApiKeyCatch_unwrapped(apiError) == apiError

\* The inner catch around createApiKey wraps what was thrown.
ApiKeyCatch(apiError) ==
    [isError |-> TRUE,
     message |-> "Failed to create Polymarket API key: "
                    \o (IF apiError.isError THEN apiError.message
                        ELSE "Unknown error")]

InvalidCredentialsError ==
    [isError |-> TRUE, message |-> "API key creation returned invalid credentials"]

MissingCredentialsError ==
    [isError |-> TRUE, message |-> "Missing API credentials - cannot proceed with trade"]

\* Reading response.orderID of an undefined response.
UndefinedResponseError ==
    [isError |-> TRUE,
     message |-> "Cannot read properties of undefined (reading 'orderID')"]

CredentialsComplete(c) == c.key /\ c.secret /\ c.passphrase

\* shares = side === "BUY" ? amount / price : amount, kept as a fraction
\* (price is in thousandths; amount / 0 is Infinity in the source).
Shares(side, price, amount) ==
    IF side = "BUY" THEN [num |-> amount * 1000, den |-> price]
    ELSE [num |-> amount, den |-> 1]

\* orderType || "GTC"
OrderTypeOrDefault(orderType) ==
    IF orderType \in {NoValue, ""} THEN "GTC" ELSE orderType

\* createAndPostOrder(userOrder) is called with the order alone: the
\* client library posts it with its default order type.
CreateAndPostOrderType(c) == "GTC"

UserOrder(c, creds) ==
    [sent |-> TRUE, via |-> "createAndPostOrder", creds |-> creds,
     orderType |-> CreateAndPostOrderType(c),
     tokenID |-> c.tokenId,
     price |-> c.price, size |-> Shares(c.side, c.price, c.amount),
     side |-> c.side, signer |-> c.signer]

\* The route's answer to the result of polymarketTradeExecute.
ExecuteRespond(result) ==
    IF result.kind = "thrown"
    THEN [status |-> 500, kind |-> "json", success |-> FALSE,
          error |-> IF result.error.isError THEN result.error.message
                    ELSE "Trade execution failed"]
    ELSE IF result.success
    THEN [status |-> 200, kind |-> "json", success |-> TRUE,
          orderId |-> result.orderId]
    ELSE [status |-> 400, kind |-> "json", success |-> FALSE,
          error |-> IF result.error \in {NoValue, ""}
                    THEN "Trade execution failed" ELSE result.error]

\* The attempt of a card waits for the server's answer; any other caller
\* is done when the route or the function is.
RouteDonePc(c) == IF c.client = "card" THEN "responded" ELSE "done"

\* polymarketTradeExecute has returned `result`: a direct caller holds it,
\* the route turns it into its response.
Finish(c, result, fault) ==
    /\ fres' = result
    /\ ffault' = fault
    /\ fpc' = RouteDonePc(c)
    /\ fresp' = IF c.flow = "endpoint" THEN ExecuteRespond(result)
                ELSE fresp
    /\ keyFailed' = (keyFailed
                        \/ (fault = "apiKey" /\ c.signer = DelegateeAddress))

\* Credentials are complete: the client is built with them, the share
\* size is computed and createAndPostOrder is called.
PlaceOrder(c, creds) ==
    /\ fsent' = UserOrder(c, creds)
    /\ fpc' = "post"
    /\ UNCHANGED <<fres, ffault, fresp, keyFailed>>

\* polymarketTradeExecute from its entry to its first await, for the call
\* `c`: environment credentials win, then userParams, else createApiKey.
ExecuteEntry_userFirst(c) ==
    IF c.userParams.key /\ c.userParams.secret
    THEN IF ~CredentialsComplete(c.userParams)
         THEN /\ Finish(c, ExecuteCatch(MissingCredentialsError), "credentials")
              /\ UNCHANGED <<fsent, keyCalls>>
         ELSE /\ PlaceOrder(c, "user")
              /\ UNCHANGED keyCalls
    ELSE IF env.clobCreds
    THEN /\ PlaceOrder(c, "env")
         /\ UNCHANGED keyCalls
    ELSE /\ fpc' = "apiKey"
         /\ keyCalls' = IF c.signer = DelegateeAddress
                         THEN keyCalls + 1 ELSE keyCalls
         /\ UNCHANGED <<fsent, fres, ffault, fresp, keyFailed>>

ExecuteEntry_issueOnIncomplete(c) ==
    IF env.clobCreds
    THEN /\ PlaceOrder(c, "env")
         /\ UNCHANGED keyCalls
    ELSE IF ~CredentialsComplete(c.userParams)
    THEN /\ fpc' = "apiKey"
         /\ keyCalls' = IF c.signer = DelegateeAddress
                         THEN keyCalls + 1 ELSE keyCalls
         /\ UNCHANGED <<fsent, fres, ffault, fresp, keyFailed>>
    ELSE /\ PlaceOrder(c, "user")
         /\ UNCHANGED keyCalls

\* polymarketTradeExecute from its entry to its first await, for the call
\* `c`: environment credentials win, then userParams, else createApiKey
\* is called with the signer.
ExecuteEntry(c) ==
    IF env.clobCreds
    THEN /\ PlaceOrder(c, "env")
         /\ UNCHANGED keyCalls
    ELSE IF ~c.userParams.key \/ ~c.userParams.secret
    THEN /\ fpc' = "apiKey"
         /\ keyCalls' = IF c.signer = DelegateeAddress
                         THEN keyCalls + 1 ELSE keyCalls
         /\ UNCHANGED <<fsent, fres, ffault, fresp, keyFailed>>
    ELSE IF ~CredentialsComplete(c.userParams)
    THEN /\ Finish(c, ExecuteCatch(MissingCredentialsError), "credentials")
         /\ UNCHANGED <<fsent, keyCalls>>
    ELSE /\ PlaceOrder(c, "user")
         /\ UNCHANGED keyCalls

DelegateeKeyError ==
    [isError |-> TRUE, message |-> "DELEGATEE_PRIVATE_KEY not set in .env file"]

\* The route's outer catch: 500 with the thrown message.
ExecuteRouteCatch(error) ==
    [status |-> 500, kind |-> "json", success |-> FALSE,
     error |-> IF error.isError THEN error.message
               ELSE "Trade execution failed"]

\* POST /api/trade/execute receives `body` from `client`: field
\* validation, the token check, then the await of initializeLit.
ExecuteArrival(body, client) ==
    LET c == [flow |-> "endpoint", client |-> client,
              tokenId |-> body.tokenId, side |-> ToUpperCase(body.side),
              price |-> body.price, amount |-> body.amount,
              userAddress |-> body.userAddress,
              orderType |-> OrderTypeOrDefault(body.orderType),
              userParams |-> NoUserParams, signer |-> DelegateeAddress]
    IN  /\ fcall' = c
        /\ IF MissingFields(body)
           THEN /\ fresp' = MissingFieldsResponse
                /\ fpc' = RouteDonePc(c)
           ELSE IF body.authToken /\ ~VerifyVincentJWT(body.authToken).valid
           THEN /\ fresp' = [status |-> 401, kind |-> "json",
                             success |-> FALSE,
                             error |-> "Invalid authentication token"]
                /\ fpc' = RouteDonePc(c)
           ELSE /\ fresp' = fresp
                /\ fpc' = "lit"

\* Any HTTP client posts to /api/trade/execute.
ExecuteRequest ==
    /\ fpc = "idle"
    /\ keyCalls < MaxKeyCalls
    /\ \E body \in ExecuteBodies : ExecuteArrival(body, "http")
    /\ UNCHANGED <<env, litInitialized, okPrechecks, fsent, ffault, fres>>
    /\ UNCHANGED <<keyCalls, keyFailed>>
    /\ UNCHANGED <<pvars, bvars, cvars, tvars, wvars, uvars, xvars>>

\* initializeLit resolves: the client was initialised before, or
\* initializeLitClient has just succeeded and the flag is set.
InitializeLitReturns ==
    /\ fpc = "lit"
    /\ litInitialized' = TRUE
    /\ fpc' = "signer"
    /\ UNCHANGED <<env, okPrechecks, fcall, fsent, ffault, fres, fresp>>
    /\ UNCHANGED <<keyCalls, keyFailed>>
    /\ UNCHANGED <<pvars, bvars, cvars, tvars, wvars, uvars, xvars>>

\* initializeLitClient rejects; initializeLit rethrows and the route
\* answers 500.  The flag stays false.
InitializeLitFails ==
    /\ fpc = "lit"
    /\ ~litInitialized
    /\ \E e \in ThrownValues : fresp' = ExecuteRouteCatch(e)
    /\ fpc' = RouteDonePc(fcall)
    /\ UNCHANGED <<env, litInitialized, okPrechecks, fcall, fsent, ffault, fres>>
    /\ UNCHANGED <<keyCalls, keyFailed>>
    /\ UNCHANGED <<pvars, bvars, cvars, tvars, wvars, uvars, xvars>>

\* getPKPSigner resolves to the delegatee's wallet, or throws without the
\* delegatee key; with a signer polymarketTradeExecute is entered.
GetPKPSignerReturns ==
    /\ fpc = "signer"
    /\ IF ~env.delegateeKey
       THEN /\ fresp' = ExecuteRouteCatch(DelegateeKeyError)
            /\ fpc' = RouteDonePc(fcall)
            /\ UNCHANGED <<fsent, ffault, fres, keyCalls, keyFailed>>
       ELSE ExecuteEntry(fcall)
    /\ UNCHANGED <<env, litInitialized, okPrechecks, fcall>>
    /\ UNCHANGED <<pvars, bvars, cvars, tvars, wvars, uvars, xvars>>

\* polymarketTradeAbility.execute is called by a delegatee process of its
\* own, with the user's PKP signer and any userParams.
AbilityExecuteCall ==
    /\ fpc = "idle"
    /\ \E side \in Sides, price \in FlowPrices, amount \in FlowAmounts,
          userAddress \in Addresses, userParams \in UserParamsSet,
          orderType \in BodyOrderTypes :
          LET c == [flow |-> "direct", client |-> "delegatee",
                    orderType |-> orderType,
                    tokenId |-> "T1", side |-> side,
                    price |-> price, amount |-> amount,
                    userAddress |-> userAddress, userParams |-> userParams,
                    signer |-> userAddress]
          IN  /\ fcall' = c
              /\ ExecuteEntry(c)
    /\ UNCHANGED <<env, litInitialized, okPrechecks>>
    /\ UNCHANGED <<pvars, bvars, cvars, tvars, wvars, uvars, xvars>>

\* await tempClient.createApiKey() resolves.
CreateApiKeyReturns ==
    /\ fpc = "apiKey"
    /\ \E credentials \in ApiKeyResponses :
          IF CredentialsComplete(credentials)
          THEN PlaceOrder(fcall, "issued")
          ELSE /\ Finish(fcall,
                         ExecuteCatch(ApiKeyCatch(InvalidCredentialsError)),
                         "apiKey")
               /\ UNCHANGED fsent
    /\ UNCHANGED <<env, litInitialized, okPrechecks, fcall>>
    /\ UNCHANGED keyCalls
    /\ UNCHANGED <<pvars, bvars, cvars, tvars, wvars, uvars, xvars>>

\* await tempClient.createApiKey() rejects.
CreateApiKeyThrows ==
    /\ fpc = "apiKey"
    /\ \E apiError \in ThrownValues :
          Finish(fcall, ExecuteCatch(ApiKeyCatch(apiError)), "apiKey")
    /\ UNCHANGED <<env, litInitialized, okPrechecks, fcall, fsent>>
    /\ UNCHANGED keyCalls
    /\ UNCHANGED <<pvars, bvars, cvars, tvars, wvars, uvars, xvars>>

\* await clobClient.createAndPostOrder(userOrder) resolves.
CreateAndPostOrderReturns ==
    /\ fpc = "post"
    /\ \E response \in PostResponses :
          IF ~response.defined
          THEN Finish(fcall, ExecuteCatch(UndefinedResponseError), "order")
          ELSE Finish(fcall,
                      [kind |-> "returned", success |-> TRUE,
                       orderId |-> response.orderID, error |-> NoValue],
                      "none")
    /\ UNCHANGED <<env, litInitialized, okPrechecks, fcall, fsent>>
    /\ UNCHANGED keyCalls
    /\ UNCHANGED <<pvars, bvars, cvars, tvars, wvars, uvars, xvars>>

\* await clobClient.createAndPostOrder(userOrder) rejects.
CreateAndPostOrderThrows ==
    /\ fpc = "post"
    /\ \E error \in ThrownValues :
          Finish(fcall, ExecuteCatch(error), "order")
    /\ UNCHANGED <<env, litInitialized, okPrechecks, fcall, fsent>>
    /\ UNCHANGED keyCalls
    /\ UNCHANGED <<pvars, bvars, cvars, tvars, wvars, uvars, xvars>>

\* ---- the extension: handleSubmitTrade and submitOrder ----

DefaultMinOrderSize == 5
WalletOutcomes == {"success", "failed", "timeout"}

\* Bodies the exchange answers POST /order with.
ErrorBodies ==
    { [error |-> "not enough balance", errorMsg |-> NoValue],
      [error |-> NoValue, errorMsg |-> "invalid signature"],
      [error |-> NoValue, errorMsg |-> NoValue] }
OkBodies ==
    { [orderID |-> "0xorder1", id |-> NoValue, orderId |-> NoValue],
      [orderID |-> NoValue, id |-> "0xorder1", orderId |-> NoValue],
      [orderID |-> NoValue, id |-> NoValue, orderId |-> "0xorder1"],
      [orderID |-> NoValue, id |-> NoValue, orderId |-> NoValue] }
FetchOutcomes ==
    {[kind |-> "rejected"]}
        \cup [kind : {"http"}, ok : {FALSE}, body : ErrorBodies]
        \cup [kind : {"http"}, ok : {TRUE}, body : OkBodies]

\* a || b on strings and undefined
Or(a, b) == IF a \in {NoValue, ""} THEN b ELSE a

Alert(success, text) ==
    [status |-> 0, kind |-> "alert", success |-> success, text |-> text]

\* handleSubmitTrade's catch block
TradeFailedAlert(error) ==
    Alert(FALSE, "Trade failed: "
                    \o (IF error.isError THEN error.message ELSE "Unknown error"))

\* submitOrder's catch block
SubmitOrderCatch(error) ==
    [kind |-> "returned", success |-> FALSE, orderId |-> NoValue,
     error |-> IF error.isError THEN error.message
               ELSE "Failed to submit order"]

\* submitOrder from the answer of fetch to its return.
SubmitOrder(r) ==
    IF r.kind = "rejected"
    THEN SubmitOrderCatch([isError |-> TRUE, message |-> "Failed to fetch"])
    ELSE IF ~r.ok
    THEN SubmitOrderCatch(
            [isError |-> TRUE,
             message |-> Or(r.body.error,
                            Or(r.body.errorMsg, "HTTP 400: Bad Request"))])
    ELSE [kind |-> "returned", success |-> TRUE,
          orderId |-> Or(r.body.orderID, Or(r.body.id, r.body.orderId)),
          error |-> NoValue]

\* The order the extension signs and posts; the builder needs a positive
\* price, (size / 0).toFixed(6) is "Infinity" and parseUnits throws.
SignedOrder(c) ==
    [sent |-> TRUE, via |-> "submitOrder", tokenID |-> c.tokenId,
     orderType |-> OrderTypeOrDefault(c.orderType),
     price |-> c.price, size |-> Shares(c.side, c.price, c.amount),
     side |-> c.side, signer |-> c.userAddress,
     makerAmount |-> MakerAmount(c.side, c.price, Whole(c.amount)),
     takerAmount |-> TakerAmount(c.side, c.price, Whole(c.amount))]

\* The user confirms a trade in the card.  The card checks the amount,
\* the minimum order size (the backend card only), the cached balance and
\* the confirmation before the allowance read.
ExtSubmitTrade ==
    /\ fpc = "idle"
    /\ keyCalls < MaxKeyCalls
    /\ \E client \in {"card", "direct"}, price \in FlowPrices,
          amount \in FlowAmounts, usdcBalance \in FlowAmounts,
          minOrderSize \in {0, DefaultMinOrderSize},
          userAddress \in Addresses, confirmed \in BOOLEAN :
          LET c == [flow |-> "extension", client |-> client,
                    orderType |-> "GTC",
                    tokenId |-> "T1", side |-> "BUY", price |-> price,
                    amount |-> amount, userAddress |-> userAddress,
                    userParams |-> NoUserParams, signer |-> userAddress]
          IN  /\ fcall' = c
              /\ IF amount <= 0
                 THEN /\ fresp' = Alert(FALSE, "Please enter a valid amount")
                      /\ fpc' = "done"
                 ELSE IF client = "card" /\ amount * 1000 < minOrderSize * price
                 THEN /\ fresp' = Alert(FALSE, "Minimum order size")
                      /\ fpc' = "done"
                 ELSE IF usdcBalance < amount
                 THEN /\ fresp' = Alert(FALSE, "Insufficient USDC balance")
                      /\ fpc' = "done"
                 ELSE IF ~confirmed
                 THEN /\ fresp' = fresp
                      /\ fpc' = "done"
                 ELSE /\ fresp' = fresp
                      /\ fpc' = "xAllowance"
    /\ UNCHANGED <<env, litInitialized, okPrechecks, fsent, ffault, fres>>
    /\ UNCHANGED <<keyCalls, keyFailed>>
    /\ UNCHANGED <<pvars, bvars, cvars, tvars, wvars, uvars, xvars>>

\* Allowance is sufficient or approved: the backend card posts the trade to
\* the server, the direct card builds the order and asks for a signature.
ExtProceed ==
    IF fcall.client = "card"
    THEN ExecuteArrival([tokenId |-> fcall.tokenId, side |-> "BUY",
                         price |-> fcall.price, amount |-> fcall.amount,
                         userAddress |-> fcall.userAddress,
                         authToken |-> FALSE,
                         orderType |-> OrderTypeOrDefault(fcall.orderType)],
                        "card")
    ELSE IF fcall.price = 0
    THEN /\ fresp' = TradeFailedAlert([isError |-> TRUE,
                                       message |-> "invalid decimal value"])
         /\ fpc' = "done"
         /\ UNCHANGED fcall
    ELSE /\ fpc' = "xSign"
         /\ UNCHANGED <<fcall, fresp>>

\* checkUSDCAllowance resolves (to "0" when the read failed).
ExtAllowanceReturns ==
    /\ fpc = "xAllowance"
    /\ \E allowance \in FlowAmounts :
          IF allowance < fcall.amount
          THEN /\ fpc' = "xApprove"
               /\ UNCHANGED <<fcall, fresp>>
          ELSE ExtProceed
    /\ UNCHANGED <<env, litInitialized, okPrechecks, fsent, ffault, fres>>
    /\ UNCHANGED <<keyCalls, keyFailed>>
    /\ UNCHANGED <<pvars, bvars, cvars, tvars, wvars, uvars, xvars>>

\* The wallet answers the approval transaction, or two minutes pass.
ExtApprovalResponds ==
    /\ fpc = "xApprove"
    /\ \E outcome \in WalletOutcomes :
          IF outcome = "success" THEN ExtProceed
          ELSE /\ fresp' = TradeFailedAlert(
                              [isError |-> TRUE,
                               message |-> IF outcome = "timeout"
                                           THEN "Approval timeout"
                                           ELSE "Approval failed"])
               /\ fpc' = "done"
               /\ UNCHANGED fcall
    /\ UNCHANGED <<env, litInitialized, okPrechecks, fsent, ffault, fres>>
    /\ UNCHANGED <<keyCalls, keyFailed>>
    /\ UNCHANGED <<pvars, bvars, cvars, tvars, wvars, uvars, xvars>>

\* The wallet answers the signature request, or two minutes pass; with a
\* signature submitOrder posts the signed order.
ExtSignatureResponds ==
    /\ fpc = "xSign"
    /\ \E outcome \in WalletOutcomes :
          IF outcome = "success"
          THEN /\ fsent' = SignedOrder(fcall)
               /\ fpc' = "xSubmit"
               /\ UNCHANGED fresp
          ELSE /\ fresp' = TradeFailedAlert(
                              [isError |-> TRUE,
                               message |-> IF outcome = "timeout"
                                           THEN "Signature timeout"
                                           ELSE "Signature failed"])
               /\ fpc' = "done"
               /\ UNCHANGED fsent
    /\ UNCHANGED <<env, litInitialized, okPrechecks, fcall, ffault, fres>>
    /\ UNCHANGED <<keyCalls, keyFailed>>
    /\ UNCHANGED <<pvars, bvars, cvars, tvars, wvars, uvars, xvars>>

\* fetch settles; submitOrder returns and the card reports the result.
ExtFetchReturns ==
    /\ fpc = "xSubmit"
    /\ \E r \in FetchOutcomes :
          LET result == SubmitOrder(r)
          IN  /\ fres' = result
              /\ fresp' = IF result.success
                          THEN Alert(TRUE, "Trade placed successfully")
                          ELSE TradeFailedAlert(
                                  [isError |-> TRUE,
                                   message |-> Or(result.error,
                                                  "Order submission failed")])
    /\ fpc' = "done"
    /\ UNCHANGED <<env, litInitialized, okPrechecks, fcall, fsent, ffault>>
    /\ UNCHANGED <<keyCalls, keyFailed>>
    /\ UNCHANGED <<pvars, bvars, cvars, tvars, wvars, uvars, xvars>>

\* The server's answer reaches the backend card through the background
\* script, which turns a non-2xx answer into {success: false, error}.
CardResultArrives ==
    /\ fpc = "responded"
    /\ fresp' = IF fresp.success
                THEN Alert(TRUE, "Trade placed successfully")
                ELSE TradeFailedAlert(
                        [isError |-> TRUE,
                         message |-> Or(fresp.error, "Order submission failed")])
    /\ fpc' = "done"
    /\ UNCHANGED <<env, litInitialized, okPrechecks, fcall, fsent, ffault, fres>>
    /\ UNCHANGED <<keyCalls, keyFailed>>
    /\ UNCHANGED <<pvars, bvars, cvars, tvars, wvars, uvars, xvars>>

\* The attempt is over; the next one starts from scratch.
AttemptReset ==
    /\ fpc = "done"
    /\ fpc' = "idle"
    /\ fcall' = NoCall
    /\ fsent' = NotSent
    /\ ffault' = "none"
    /\ fres' = NoResult
    /\ fresp' = NoResponse
    /\ UNCHANGED <<env, litInitialized, okPrechecks>>
    /\ UNCHANGED <<keyCalls, keyFailed>>
    /\ UNCHANGED <<pvars, bvars, cvars, tvars, wvars, uvars, xvars>>

Init ==
    /\ PrecheckIdle
    /\ BuilderIdle
    /\ env \in Envs
    /\ litInitialized = FALSE
    /\ okPrechecks = {}
    /\ keyCalls = 0
    /\ keyFailed = FALSE
    /\ AttemptIdle
    /\ ConcurrentIdle
    /\ StoresIdle

Next ==
    \/ PrecheckEndpoint
    \/ ExecuteRequest
    \/ InitializeLitReturns
    \/ InitializeLitFails
    \/ GetPKPSignerReturns
    \/ AbilityExecuteCall
    \/ CreateApiKeyReturns
    \/ CreateApiKeyThrows
    \/ CreateAndPostOrderReturns
    \/ CreateAndPostOrderThrows
    \/ ExtSubmitTrade
    \/ ExtAllowanceReturns
    \/ ExtApprovalResponds
    \/ ExtSignatureResponds
    \/ ExtFetchReturns
    \/ CardResultArrives
    \/ AttemptReset

Spec == Init /\ [][Next]_vars

-----------------------------------------------------------------------------
(* Properties of the trade session *)

\* C1: an order is handed to the exchange (createAndPostOrder reached
\* through POST /api/trade/execute, or submitOrder in the extension) only
\* after a precheck of the same intent and account has answered
\* allowed=true.
C1_SubmittedOnlyAfterPrecheck ==
    (fsent.sent /\ fcall.flow \in {"endpoint", "extension"})
        => Intent(fcall) \in okPrechecks

\* C5: an intent handed to POST /api/trade/execute whose price is below
\* 0.01 or above 0.99 never has a share size computed from it and never
\* has an order sent to the exchange.
C5_OutOfRangeNeverSubmitted ==
    (fcall.flow = "endpoint" /\ PriceOutOfRange(fcall.price))
        => ~fsent.sent

C9_SuccessHasOrderId ==
    (fres.kind = "returned" /\ fres.success) => fres.orderId # NoValue

\* C20: no execute request that reached submission finishes without a
\* ledger record in a terminal status: confirmed with the returned orderId
\* on success, failed with the error message on failure.
C20_SubmissionIsRecorded ==
    (fcall.flow = "endpoint" /\ fpc = "done" /\ fsent.sent)
        => \E id \in DOMAIN trades :
              IF fres.kind = "returned" /\ fres.success
              THEN /\ trades[id].status = "confirmed"
                   /\ trades[id].order_id = fres.orderId
              ELSE trades[id].status = "failed"

\* C22: the order is submitted with the order type the caller asked for,
\* GTC when none was given, in the backend execute path and in the
\* extension's submitOrder.
C22_OrderTypeAsRequested ==
    fsent.sent => fsent.orderType = OrderTypeOrDefault(fcall.orderType)

\* C27: the account that precheck validates is the account that trades:
\* for a request with userAddress A, whose balance and allowance the
\* precheck route reads, the order submitted for that request is signed
\* by the signer whose address is A.
C27_PrecheckedAccountTrades ==
    (fcall.flow = "endpoint" /\ fsent.sent) =>
        fsent.signer = fcall.userAddress

\* C29: when the environment credentials are not all set and the user
\* credentials hold a key and a secret but no passphrase,
\* polymarketTradeExecute makes no createApiKey call, submits no order and
\* returns success=false with the missing-credentials error.
C29_MissingPassphraseFails ==
    (/\ fcall.flow = "direct"
     /\ ~env.clobCreds
     /\ fcall.userParams = [key |-> TRUE, secret |-> TRUE,
                            passphrase |-> FALSE]) =>
        /\ fpc = "done"
        /\ ~fsent.sent
        /\ keyCalls = 0 \/ fcall.signer # DelegateeAddress
        /\ fres = [kind |-> "returned", success |-> FALSE,
                   orderId |-> NoValue,
                   error |-> "Missing API credentials - cannot proceed with trade"]

C29_Witness ==
    /\ fcall.flow = "direct"
    /\ ~env.clobCreds
    /\ fcall.userParams.key /\ fcall.userParams.secret
    /\ ~fcall.userParams.passphrase
    /\ fpc = "done"
    /\ fres.kind = "returned"
    /\ fres.success = FALSE
    /\ fres.error = "Missing API credentials - cannot proceed with trade"

\* C15: credential resolution prefers the three environment credentials
\* (userParams ignored, no issuance), then the userParams credentials (no
\* issuance); createApiKey is called only when neither is available.
C15_CredentialPreference ==
    /\ fpc = "apiKey"
          => /\ ~env.clobCreds
             /\ ~(fcall.userParams.key /\ fcall.userParams.secret)
    /\ (fsent.sent /\ fsent.via = "createAndPostOrder")
          => fsent.creds =
                IF env.clobCreds THEN "env"
                ELSE IF fcall.userParams.key /\ fcall.userParams.secret
                     THEN "user" ELSE "issued"

C15_Witness ==
    /\ env.clobCreds
    /\ fcall.flow = "direct"
    /\ CredentialsComplete(fcall.userParams)
    /\ fsent.sent
    /\ fsent.creds = "env"

\* C16: when trade attempts for the same signing identity run one after
\* the other with no environment and no cached credentials, at most one
\* createApiKey call reaches the exchange.
C16_AtMostOneIssuance ==
    keyCalls <= 1

ApiKeyFailureMessages ==
    { "Failed to create Polymarket API key: could not detect network",
      "Failed to create Polymarket API key: Unknown error",
      "Failed to create Polymarket API key: API key creation returned invalid credentials" }

\* C18: when createApiKey throws or returns an incomplete triple,
\* polymarketTradeExecute returns success=false with an error naming the
\* API-key creation failure and submits no order in that attempt; the
\* failed step leaves the server's environment and flag as they were, so a
\* later attempt starts as a first one does.
C18_IssuanceFailureIsLocal ==
    /\ [](ffault = "apiKey"
            => /\ fres.kind = "returned"
               /\ fres.success = FALSE
               /\ fres.error \in ApiKeyFailureMessages
               /\ ~fsent.sent)
    /\ [][(fpc = "apiKey" /\ ffault' = "apiKey")
            => (env' = env /\ litInitialized' = litInitialized
                    /\ fcall' = fcall)]_vars
    /\ [][(ffault = "apiKey" /\ fpc' = "idle")
            => (fcall' = NoCall /\ fsent' = NotSent /\ fres' = NoResult
                    /\ ffault' = "none"
                    /\ env' = env /\ litInitialized' = litInitialized)]_vars

\* A later attempt with the same signer succeeds with issued credentials
\* after an earlier issuance failed.
C18_Witness ==
    /\ keyFailed
    /\ fcall.flow = "endpoint"
    /\ fsent.sent
    /\ fsent.creds = "issued"
    /\ fres.kind = "returned"
    /\ fres.success
    /\ fres.orderId = "0xorder1"

-----------------------------------------------------------------------------
(* Concurrent execute requests: the steps of POST /api/trade/execute and   *)
(* polymarketTradeExecute, interleaved at their awaits.                    *)

\* Requests of one user; a body may lack a field.
ConcurrentBodies ==
    { b \in TradeBodies :
        /\ b.userAddress = "0xUserA" /\ b.side = "BUY"
        /\ b.price = 500 /\ ~b.authToken }

CRespond(r, response) ==
    /\ cres' = [cres EXCEPT ![r] = response]
    /\ cpc' = [cpc EXCEPT ![r] = "done"]

CGoto(r, pc) ==
    /\ cpc' = [cpc EXCEPT ![r] = pc]
    /\ UNCHANGED cres

\* The idle parts of the model.
CFrame ==
    UNCHANGED <<pvars, bvars, tvars, wvars, uvars, xvars, env, okPrechecks,
                fpc, fcall, fsent, ffault, fres, fresp, keyCalls, keyFailed>>

\* Request r arrives: field validation, then initializeLit reads the flag
\* and, when it is not set, awaits initializeLitClient.
CRequestArrives(r) ==
    /\ cpc[r] = "idle"
    /\ \E body \in ConcurrentBodies :
          IF MissingFields(body) THEN CRespond(r, MissingFieldsResponse)
          ELSE IF litInitialized THEN CGoto(r, "signer")
          ELSE CGoto(r, "litClient")
    /\ UNCHANGED <<litInitialized, ccalls>>
    /\ CFrame

\* initializeLitClient resolves for request r: the flag is set.
CLitClientReturns(r) ==
    /\ cpc[r] = "litClient"
    /\ litInitialized' = TRUE
    /\ CGoto(r, "signer")
    /\ UNCHANGED ccalls
    /\ CFrame

\* initializeLitClient rejects for request r: 500.
CLitClientFails(r) ==
    /\ cpc[r] = "litClient"
    /\ \E e \in ThrownValues : CRespond(r, ExecuteRouteCatch(e))
    /\ UNCHANGED <<litInitialized, ccalls>>
    /\ CFrame

\* getPKPSigner resolves for request r and polymarketTradeExecute runs to
\* its first await: with no credentials in the environment (the route
\* passes no userParams) it calls createApiKey.
CGetPKPSignerReturns(r) ==
    /\ cpc[r] = "signer"
    /\ IF ~env.delegateeKey
       THEN /\ CRespond(r, ExecuteRouteCatch(DelegateeKeyError))
            /\ UNCHANGED ccalls
       ELSE IF env.clobCreds
       THEN /\ CGoto(r, "post")
            /\ UNCHANGED ccalls
       ELSE /\ CGoto(r, "apiKey")
            /\ ccalls' = ccalls + 1
    /\ UNCHANGED litInitialized
    /\ CFrame

\* createApiKey resolves for request r.
CCreateApiKeyReturns(r) ==
    /\ cpc[r] = "apiKey"
    /\ \E credentials \in ApiKeyResponses :
          IF CredentialsComplete(credentials) THEN CGoto(r, "post")
          ELSE CRespond(r, ExecuteRespond(
                              ExecuteCatch(ApiKeyCatch(InvalidCredentialsError))))
    /\ UNCHANGED <<litInitialized, ccalls>>
    /\ CFrame

\* createApiKey rejects for request r.
CCreateApiKeyThrows(r) ==
    /\ cpc[r] = "apiKey"
    /\ \E apiError \in ThrownValues :
          CRespond(r, ExecuteRespond(ExecuteCatch(ApiKeyCatch(apiError))))
    /\ UNCHANGED <<litInitialized, ccalls>>
    /\ CFrame

\* createAndPostOrder resolves for request r.
CCreateAndPostOrderReturns(r) ==
    /\ cpc[r] = "post"
    /\ \E response \in PostResponses :
          IF ~response.defined
          THEN CRespond(r, ExecuteRespond(ExecuteCatch(UndefinedResponseError)))
          ELSE CRespond(r, ExecuteRespond(
                              [kind |-> "returned", success |-> TRUE,
                               orderId |-> response.orderID,
                               error |-> NoValue]))
    /\ UNCHANGED <<litInitialized, ccalls>>
    /\ CFrame

\* createAndPostOrder rejects for request r.
CCreateAndPostOrderThrows(r) ==
    /\ cpc[r] = "post"
    /\ \E error \in ThrownValues :
          CRespond(r, ExecuteRespond(ExecuteCatch(error)))
    /\ UNCHANGED <<litInitialized, ccalls>>
    /\ CFrame

CInit ==
    /\ PrecheckIdle
    /\ BuilderIdle
    /\ env \in Envs
    /\ litInitialized = FALSE
    /\ okPrechecks = {}
    /\ keyCalls = 0
    /\ keyFailed = FALSE
    /\ AttemptIdle
    /\ ConcurrentIdle
    /\ StoresIdle

CNext ==
    \/ \E r \in Requests : CRequestArrives(r)
    \/ \E r \in Requests : CLitClientReturns(r)
    \/ \E r \in Requests : CLitClientFails(r)
    \/ \E r \in Requests : CGetPKPSignerReturns(r)
    \/ \E r \in Requests : CCreateApiKeyReturns(r)
    \/ \E r \in Requests : CCreateApiKeyThrows(r)
    \/ \E r \in Requests : CCreateAndPostOrderReturns(r)
    \/ \E r \in Requests : CCreateAndPostOrderThrows(r)

SpecConcurrent == CInit /\ [][CNext]_vars

\* C17: under concurrent first trades for the same identity, in no
\* interleaving are two createApiKey calls issued for that identity.
C17_SingleIssuanceUnderConcurrency ==
    ccalls <= 1

-----------------------------------------------------------------------------
(* Trade ledger: the trades table and the TradeDB operations.              *)

\* Rows the ledger may hold.
MaxTrades == 2

\* SQL NULL.
Null == "NULL"

TradeIds == 1..MaxTrades
TxHashes == {"0xtx1"}
ErrorMessages == {"Order rejected"}

\* Inputs of TradeDB.create; the user row exists.
CreateTradeParams ==
    [userId : {1}, marketId : {"market-1"}, tokenId : {"123"},
     side : {"BUY", "SELL"}, amount : {1}, price : {500}, shares : {2}]

\* INSERT INTO trades (...) VALUES (..., 'pending') RETURNING *
TradeRow(id, params) ==
    [id |-> id, user_id |-> params.userId, market_id |-> params.marketId,
     token_id |-> params.tokenId, side |-> params.side,
     amount |-> params.amount, price |-> params.price,
     shares |-> params.shares, order_id |-> Null, tx_hash |-> Null, status |-> "pending",
     error_message |-> Null]

\* UPDATE trades SET ... WHERE id = ?: a missing id changes no row.
\* `set` holds every row with the SET clause applied.
UpdateWhereId(tradeId, set) ==
    trades' = [id \in DOMAIN trades |->
                  IF id = tradeId THEN set[id] ELSE trades[id]]

TFrame ==
    UNCHANGED <<pvars, bvars, fvars, cvars, wvars, uvars, xvars>>

TradeCreate ==
    /\ Len(trades) < MaxTrades
    /\ \E params \in CreateTradeParams :
          trades' = Append(trades, TradeRow(Len(trades) + 1, params))
    /\ TFrame

TradeUpdateOrderId ==
    /\ \E tradeId \in TradeIds, orderId \in OrderIds :
          UpdateWhereId(tradeId,
              [id \in DOMAIN trades |->
                  [trades[id] EXCEPT !.order_id = orderId, !.status = "confirmed"]])
    /\ TFrame

TradeUpdateTxHash ==
    /\ \E tradeId \in TradeIds, txHash \in TxHashes :
          UpdateWhereId(tradeId,
              [id \in DOMAIN trades |->
                  [trades[id] EXCEPT !.tx_hash = txHash, !.status = "confirmed"]])
    /\ TFrame

TradeMarkFailed ==
    /\ \E tradeId \in TradeIds, errorMessage \in ErrorMessages :
          UpdateWhereId(tradeId,
              [id \in DOMAIN trades |->
                  [trades[id] EXCEPT !.status = "failed",
                                     !.error_message = errorMessage]])
    /\ TFrame

TInit ==
    /\ PrecheckIdle
    /\ BuilderIdle
    /\ SessionIdle

TNext ==
    \/ TradeCreate
    \/ TradeUpdateOrderId
    \/ TradeUpdateTxHash
    \/ TradeMarkFailed

SpecTradeDB == TInit /\ [][TNext]_vars

\* C19: a trade record is created pending, and a record that is already
\* confirmed or failed never changes status again.
C19_TerminalStatusIsFinal ==
    [][/\ \A id \in DOMAIN trades' \ DOMAIN trades :
              trades'[id].status = "pending"
       /\ \A id \in DOMAIN trades :
              trades[id].status \in {"confirmed", "failed"}
                  => trades'[id].status = trades[id].status]_vars

\* C26: a ledger record in status confirmed always has its venue order
\* identifier set.
C26_ConfirmedHasOrderId ==
    \A id \in DOMAIN trades :
        trades[id].status = "confirmed" => trades[id].order_id # Null

-----------------------------------------------------------------------------
(* Progress of a trade attempt.  The steps the program takes by itself are  *)
(* fair: getPKPSigner builds a wallet locally, and the wallet approval and  *)
(* signature promises are raced against a two-minute timer.  The chain      *)
(* reads, createApiKey, createAndPostOrder and the fetch calls are awaited  *)
(* without a timer, so nothing obliges them to answer.                      *)

SpecLive ==
    /\ Init
    /\ [][Next]_vars
    /\ WF_vars(GetPKPSignerReturns)
    /\ WF_vars(ExtApprovalResponds)
    /\ WF_vars(ExtSignatureResponds)

\* C21: no trade attempt stays pending forever: every attempt under way
\* eventually ends in a terminal result, even when a network call never
\* answers.
C21_AttemptEventuallyEnds ==
    (fpc \notin {"idle", "done"}) ~> (fpc = "done")

-----------------------------------------------------------------------------
(* GET /api/wallet/balance and the wallet_balances row of one user.        *)

\* The clock stops here.
MaxClock == 335

\* const FIVE_MINUTES = 5 * 60
FiveMinutes == 300

\* How far the clock moves between two requests, in seconds.
TickSteps == {30, 31, 270}

\* BalanceDB.isStale
IsStale(balance) ==
    IF ~balance.present THEN TRUE
    ELSE clock - balance.last_updated_at > FiveMinutes

\* BalanceDB.update: INSERT ... ON CONFLICT(user_id) DO UPDATE ... RETURNING *
BalanceUpdate(usdcBalance) ==
    [present |-> TRUE, usdc_balance |-> usdcBalance,
     last_updated_at |-> clock]

WFrame ==
    UNCHANGED <<pvars, bvars, fvars, cvars, tvars, uvars, xvars>>

\* The clock moves on by one of `steps`.
Tick(steps) ==
    \E d \in steps :
        /\ clock + d <= MaxClock
        /\ clock' = clock + d

\* Time passes between two requests.
ClockTick ==
    /\ Tick(TickSteps)
    /\ UNCHANGED <<balances, wres>>
    /\ WFrame

\* One GET /api/wallet/balance: verifyRequestJWT, the stored row, the
\* chain read when the row is stale, the response.  `read` is what the
\* chain read produces if it is made.
GetWalletBalance ==
    /\ \E authorized \in BOOLEAN, read \in OracleReads :
          IF ~authorized
          THEN /\ wres' = [kind |-> "error", status |-> 401,
                           error |-> "No authorization token provided"]
               /\ UNCHANGED balances
          ELSE IF ~IsStale(balances)
          THEN /\ wres' = [kind |-> "json", status |-> 200,
                           usdc |-> balances.usdc_balance,
                           lastUpdated |-> balances.last_updated_at,
                           chainRead |-> FALSE,
                           age |-> clock - balances.last_updated_at]
               /\ UNCHANGED balances
          ELSE IF ~read.ok
          THEN /\ wres' = [kind |-> "error", status |-> 401,
                           error |-> read.value.message]
               /\ UNCHANGED balances
          ELSE /\ balances' = BalanceUpdate(read.value)
               /\ wres' = [kind |-> "json", status |-> 200,
                           usdc |-> read.value, lastUpdated |-> clock,
                           chainRead |-> TRUE, age |-> 0]
    /\ UNCHANGED clock
    /\ WFrame

WInit ==
    /\ PrecheckIdle
    /\ BuilderIdle
    /\ SessionIdle

WNext ==
    \/ ClockTick
    \/ GetWalletBalance

SpecBalance == WInit /\ [][WNext]_vars

\* C23: the endpoint serves balances cached for 30 seconds: a stored
\* balance is returned without a fresh chain read only if it was last
\* updated at most 30 seconds ago.
C23_CachedForThirtySeconds ==
    (wres.kind = "json" /\ ~wres.chainRead) => wres.age <= 30

-----------------------------------------------------------------------------
(* The users table and UserDB.upsertUser.                                  *)

\* How far the clock moves between two logins, in seconds.
LoginSteps == {150}

\* What handleAuthCallback passes to upsertUser; every field but jwt is
\* read from the token's payload.
CreateUserParamsSet ==
    { [pkpAddress |-> "0xUserA", pkpPublicKey |-> "pk1", pkpTokenId |-> "1",
       authMethod |-> "email", authValue |-> "a@example.org",
       jwt |-> "jwt1", jwtExpiresAt |-> 1000],
      [pkpAddress |-> "0xUserA", pkpPublicKey |-> "pk2", pkpTokenId |-> "2",
       authMethod |-> "passkey", authValue |-> "",
       jwt |-> "jwt2", jwtExpiresAt |-> 2000],
      [pkpAddress |-> "0xUserB", pkpPublicKey |-> "pk3", pkpTokenId |-> "3",
       authMethod |-> "email", authValue |-> "b@example.org",
       jwt |-> "jwt3", jwtExpiresAt |-> 1000],
      [pkpAddress |-> "0xUserB", pkpPublicKey |-> "pk3", pkpTokenId |-> "3",
       authMethod |-> "email", authValue |-> "b@example.org",
       jwt |-> "jwt4", jwtExpiresAt |-> 2000] }

\* params.authValue || null
AuthValueOrNull(authValue) == IF authValue = "" THEN Null ELSE authValue

\* INSERT INTO users (...) VALUES (..., strftime('%s', 'now')); created_at
\* takes its default, the same clock reading.
UserRow(id, params) ==
    [id |-> id, pkp_address |-> params.pkpAddress,
     pkp_public_key |-> params.pkpPublicKey,
     pkp_token_id |-> params.pkpTokenId,
     auth_method |-> params.authMethod,
     auth_value |-> AuthValueOrNull(params.authValue),
     jwt |-> params.jwt, jwt_expires_at |-> params.jwtExpiresAt,
     created_at |-> clock, last_login_at |-> clock]

OnConflictUpdate_allColumns(row, params) ==
    [UserRow(row.id, params) EXCEPT !.created_at = row.created_at]

\* ON CONFLICT(pkp_address) DO UPDATE SET jwt = excluded.jwt,
\* jwt_expires_at = excluded.jwt_expires_at, last_login_at = now
OnConflictUpdate(row, params) ==
    [row EXCEPT !.jwt = params.jwt,
                !.jwt_expires_at = params.jwtExpiresAt,
                !.last_login_at = clock]

\* The table after UserDB.upsertUser(params).
UpsertRows(params) ==
    IF \E id \in DOMAIN users : users[id].pkp_address = params.pkpAddress
    THEN [id \in DOMAIN users |->
            IF users[id].pkp_address = params.pkpAddress
            THEN OnConflictUpdate(users[id], params)
            ELSE users[id]]
    ELSE Append(users, UserRow(Len(users) + 1, params))

UFrame ==
    UNCHANGED <<pvars, bvars, fvars, cvars, tvars, wvars, xvars>>

\* handleAuthCallback stores the user of a verified token.
UpsertUser ==
    /\ \E params \in CreateUserParamsSet : users' = UpsertRows(params)
    /\ UFrame

\* Time passes between two logins.
LoginTick ==
    /\ Tick(LoginSteps)
    /\ UNCHANGED <<balances, wres, users>>
    /\ UNCHANGED <<pvars, bvars, fvars, cvars, tvars, xvars>>

UInit ==
    /\ PrecheckIdle
    /\ BuilderIdle
    /\ SessionIdle

UNext ==
    \/ UpsertUser
    \/ LoginTick

SpecUserDB == UInit /\ [][UNext]_vars

\* C30: after any sequence of upsertUser calls there is at most one row
\* per pkp_address; an upsert for an address that has a row changes only
\* jwt, jwt_expires_at and last_login_at of that row, and every other row
\* is untouched.
C30_UpsertKeepsIdentity ==
    /\ [](\A i, j \in DOMAIN users :
              users[i].pkp_address = users[j].pkp_address => i = j)
    /\ [][/\ \A id \in DOMAIN users :
                /\ id \in DOMAIN users'
                /\ users'[id] = [users[id] EXCEPT
                                    !.jwt = users'[id].jwt,
                                    !.jwt_expires_at = users'[id].jwt_expires_at,
                                    !.last_login_at = users'[id].last_login_at]
          /\ \A i, j \in DOMAIN users :
                (users'[i] # users[i] /\ users'[j] # users[j]) => i = j
          /\ Len(users') > Len(users) =>
                \A id \in DOMAIN users : users'[id] = users[id]]_vars

C30_Witness ==
    \E id \in DOMAIN users :
        /\ Len(users) = 2
        /\ users[id].pkp_address = "0xUserA"
        /\ users[id].pkp_public_key = "pk1"
        /\ users[id].jwt = "jwt2"
        /\ users[id].last_login_at > users[id].created_at

-----------------------------------------------------------------------------
(* Link cards of one page in the direct flow: each card's handleSubmitTrade *)
(* asks the page's wallet for a signature over its order through window     *)
(* events, and the inpage script answers through a window event.            *)

\* The price each card's outcome shows, in thousandths.
CardPrice(k) == IF k = 1 THEN 500 ELSE 650

\* The order handleSubmitTrade builds for card k.
CardOrder(k) ==
    BuildPolymarketOrder(
        [tokenId |-> "T1", side |-> "BUY", price |-> CardPrice(k),
         amount |-> Whole(1), userAddress |-> "0xUserA",
         nonce |-> [given |-> FALSE, value |-> 0],
         now |-> 1500, salt |-> 7])

\* The cards whose handleSignResponse is registered on the window.
Listening == { k \in Cards : xpc[k] = "signing" }

XFrame ==
    UNCHANGED <<pvars, bvars, fvars, cvars, tvars, wvars, uvars>>

\* Card k registers its listener for WHISPERS_TYPED_DATA_RESPONSE and
\* dispatches WHISPERS_SIGN_TYPED_DATA with its order; the inpage script
\* asks the wallet for eth_signTypedData_v4 over that message.
CardRequestsSignature(k) ==
    /\ xpc[k] = "idle"
    /\ xpc' = [xpc EXCEPT ![k] = "signing"]
    /\ xwallet' = xwallet \cup {CardOrder(k)}
    /\ UNCHANGED <<xsig, xsent>>
    /\ XFrame

\* The wallet signs one of the requested messages; the inpage script
\* dispatches WHISPERS_TYPED_DATA_RESPONSE with success and the signature,
\* and every registered handleSignResponse runs: it removes itself and
\* resolves its card's promise with the signature of the event.
WalletSigns ==
    /\ \E message \in xwallet :
          /\ xwallet' = xwallet \ {message}
          /\ xsig' = [k \in Cards |->
                        IF k \in Listening
                        THEN [kind |-> "signature", over |-> message]
                        ELSE xsig[k]]
    /\ xpc' = [k \in Cards |-> IF k \in Listening THEN "submit" ELSE xpc[k]]
    /\ UNCHANGED xsent
    /\ XFrame

\* The wallet refuses one of the requests; the response event carries
\* success false and every registered handler rejects its promise.
WalletRejects ==
    /\ \E message \in xwallet : xwallet' = xwallet \ {message}
    /\ xpc' = [k \in Cards |-> IF k \in Listening THEN "done" ELSE xpc[k]]
    /\ UNCHANGED <<xsig, xsent>>
    /\ XFrame

\* Two minutes pass without a response event: card k's promise rejects.
SignatureTimeout(k) ==
    /\ xpc[k] = "signing"
    /\ xpc' = [xpc EXCEPT ![k] = "done"]
    /\ UNCHANGED <<xwallet, xsig, xsent>>
    /\ XFrame

\* Card k hands its order and the signature it got to submitOrder.
CardSubmits(k) ==
    /\ xpc[k] = "submit"
    /\ xsent' = [xsent EXCEPT ![k] =
                    [sent |-> TRUE, order |-> CardOrder(k),
                     signature |-> xsig[k]]]
    /\ xpc' = [xpc EXCEPT ![k] = "done"]
    /\ UNCHANGED <<xwallet, xsig>>
    /\ XFrame

\* Card k's attempt is over; the user may trade with it again.
CardReset(k) ==
    /\ xpc[k] = "done"
    /\ xpc' = [xpc EXCEPT ![k] = "idle"]
    /\ xsig' = [xsig EXCEPT ![k] = NoSignature]
    /\ xsent' = [xsent EXCEPT ![k] = NotSent]
    /\ UNCHANGED xwallet
    /\ XFrame

XInit ==
    /\ PrecheckIdle
    /\ BuilderIdle
    /\ SessionIdle

XNext ==
    \/ \E k \in Cards : CardRequestsSignature(k)
    \/ WalletSigns
    \/ WalletRejects
    \/ \E k \in Cards : SignatureTimeout(k)
    \/ \E k \in Cards : CardSubmits(k)
    \/ \E k \in Cards : CardReset(k)

SpecCards == XInit /\ [][XNext]_vars

\* C28: a signature response is consumed only by the trade attempt that
\* requested it: no card submits its order with a signature made over a
\* different order.
C28_SignatureOverOwnOrder ==
    \A k \in Cards :
        xsent[k].sent => xsent[k].signature.over = xsent[k].order

====
